---- MODULE Spec2Model ----
(***************************************************************************)
(* scripts/reproduce-mlflow-search-bug.py: a linear probe that creates a   *)
(* registered model and a model version in an MLflow registry, fetches     *)
(* version "1" directly, searches the versions by name and reports an      *)
(* empty search result.                                                    *)
(*                                                                         *)
(* The registry behind the client is the environment of the script.  It   *)
(* is modelled as a store (registered names, version records) that answers *)
(* each call atomically; when `faults` is set the client may in addition   *)
(* raise an error with any of the messages of Messages instead of          *)
(* answering.  Tags are passed through unread and are left out.            *)
(***************************************************************************)
EXTENDS Naturals, Sequences, FiniteSets, TLC

VARIABLES
    registered,     \* registry: the registered models (their names), in creation order
    store,          \* registry: the model version records [name, version], in creation order
    faults,         \* TRUE when the client may raise injected errors
    pc,             \* per run: the statement the run is about to execute
    calls,          \* per run: the remote calls made so far, with their outcome
    out,            \* per run: the lines printed to standard output
    exc,            \* per run: the uncaught exception, <<>> when there is none
    created,        \* per run: what create_model_version returned (discarded by the script)
    v,              \* per run: the script's variable v
    versions,       \* per run: the script's variable versions
    status          \* per run: the exit status of the process, <<>> while running

vars == <<registered, store, faults, pc, calls, out, exc, created, v, versions, status>>

(* Largest number of versions a previous use of the registry left behind. *)
MaxPrior == 2

Runs == {1, 2}

MODEL_NAME == "test-search-bug"

OTHER_NAME == "other-model"

----------------------------------------------------------------------------
(* Strings *)

(* Python's `needle in hay` on str. *)
Contains(hay, needle) ==
    \E i \in 1..(Len(hay) + 1) :
        /\ i + Len(needle) - 1 <= Len(hay)
        /\ SubSeq(hay, i, i + Len(needle) - 1) = needle

(* The messages an error of the client can carry. *)
MsgAlreadyExists ==
    "RESOURCE_ALREADY_EXISTS: Registered Model (name=test-search-bug) already exists."

MsgNotFound == "RESOURCE_DOES_NOT_EXIST: not found"

Messages ==
    { MsgAlreadyExists,
      MsgNotFound,
      "ALREADY_EXISTS",
      "INTERNAL_ERROR: already exists",
      "ALREADY_EXIST",
      "" }

(* An exception object, and str(e). *)
Exception(m) == [args |-> <<m>>]

Str(e) == e.args[1]

(* The test of the except clause. *)
IsAlreadyExistsOff(e) == FALSE

IsAlreadyExistsAny(e) == TRUE

IsAlreadyExistsLower(e) == Contains(Str(e), "already exists")

IsAlreadyExists(e) == Contains(Str(e), "ALREADY_EXISTS")

----------------------------------------------------------------------------
(* The client's answers *)

Return(val) == [kind |-> "return", e |-> Exception(""), val |-> val]

Raise(m) == [kind |-> "raise", e |-> Exception(m), val |-> <<>>]

Injected == IF faults THEN {Raise(m) : m \in Messages} ELSE {}

VersionRecord(name, ver) == [name |-> name, version |-> ver]

IsRegistered(name) == \E i \in 1..Len(registered) : registered[i] = name

VersionsOf(name) == LET Named(r) == r.name = name IN SelectSeq(store, Named)

HasVersion(name, ver) == \E i \in 1..Len(store) : store[i] = VersionRecord(name, ver)

(* create_registered_model(name) *)
CreateRegisteredModelAnswers(name) ==
    (IF IsRegistered(name) THEN {Raise(MsgAlreadyExists)} ELSE {Return(<<>>)})
        \cup Injected

(* create_model_version(name, source): the registry numbers the versions of *)
(* a name 1, 2, ... and returns the new record.                             *)
CreateModelVersionAnswers(name) ==
    (IF IsRegistered(name)
        THEN {Return(<<VersionRecord(name, ToString(Len(VersionsOf(name)) + 1))>>)}
        ELSE {Raise(MsgNotFound)})
        \cup Injected

(* get_model_version(name, version) *)
GetModelVersionAnswers(name, ver) ==
    (IF HasVersion(name, ver)
        THEN {Return(<<VersionRecord(name, ver)>>)}
        ELSE {Raise(MsgNotFound)})
        \cup Injected

(* search_model_versions(filter_string): the endpoint under test; it may   *)
(* return any part of the matching records, none of them included.          *)
SearchModelVersionsAnswers(filter) ==
    LET Matches(r) == filter = "name='" \o r.name \o "'"
        match == SelectSeq(store, Matches)
    IN  {Return(SubSeq(match, 1, k)) : k \in 0..Len(match)} \cup Injected

----------------------------------------------------------------------------
(* The script *)

Call(op, args, resp) == [op |-> op, args |-> args, resp |-> resp]

(* An exception leaves the module body: the interpreter prints the trace   *)
(* and exits with status 1.                                                 *)
AbortRetry(p, e) == UNCHANGED <<pc, exc, status>>

Abort(p, e) ==
    /\ pc' = [pc EXCEPT ![p] = "aborted"]
    /\ exc' = [exc EXCEPT ![p] = <<e>>]
    /\ status' = [status EXCEPT ![p] = <<1>>]

(* The statements of the module body follow one another. *)
SuccessorSwapped(step) ==
    CASE step = "create_registered_model" -> "get_model_version"
      [] step = "get_model_version"       -> "create_model_version"
      [] step = "create_model_version"    -> "search_model_versions"
      [] step = "search_model_versions"   -> "diagnose"

Successor(step) ==
    CASE step = "create_registered_model" -> "create_model_version"
      [] step = "create_model_version"    -> "get_model_version"
      [] step = "get_model_version"       -> "search_model_versions"
      [] step = "search_model_versions"   -> "diagnose"

Continue(p) ==
    /\ pc' = [pc EXCEPT ![p] = Successor(pc[p])]
    /\ UNCHANGED <<exc, status>>

(* lines 21-31 *)
CreateRegisteredModel(p) ==
    /\ pc[p] = "create_registered_model"
    /\ \E resp \in CreateRegisteredModelAnswers(MODEL_NAME) :
        /\ calls' = [calls EXCEPT ![p] =
                        Append(@, Call("create_registered_model", <<MODEL_NAME>>, resp))]
        /\ IF resp.kind = "return"
              THEN /\ registered' = Append(registered, MODEL_NAME)
                   /\ out' = [out EXCEPT ![p] = Append(@, "Created model: " \o MODEL_NAME)]
                   /\ Continue(p)
              ELSE /\ UNCHANGED registered
                   /\ IF IsAlreadyExists(resp.e)
                         THEN /\ out' = [out EXCEPT ![p] =
                                    Append(@, "Model " \o MODEL_NAME \o " already exists")]
                              /\ Continue(p)
                         ELSE /\ UNCHANGED out
                              /\ Abort(p, resp.e)
    /\ UNCHANGED <<store, faults, created, v, versions>>

(* lines 33-39 *)
CreateModelVersionTolerant(p) ==
    /\ pc[p] = "create_model_version"
    /\ \E resp \in CreateModelVersionAnswers(MODEL_NAME) :
        /\ calls' = [calls EXCEPT ![p] =
                        Append(@, Call("create_model_version",
                                       <<MODEL_NAME, "mlflow-artifacts:/" \o MODEL_NAME>>,
                                       resp))]
        /\ IF resp.kind = "return"
              THEN /\ store' = Append(store, resp.val[1])
                   /\ created' = [created EXCEPT ![p] = resp.val]
                   /\ out' = [out EXCEPT ![p] = Append(@, "Created version")]
                   /\ Continue(p)
              ELSE /\ UNCHANGED <<store, created>>
                   /\ IF IsAlreadyExists(resp.e)
                         THEN /\ out' = [out EXCEPT ![p] =
                                    Append(@, "Model " \o MODEL_NAME \o " already exists")]
                              /\ Continue(p)
                         ELSE /\ UNCHANGED out
                              /\ Abort(p, resp.e)
    /\ UNCHANGED <<registered, faults, v, versions>>

CreateModelVersion(p) ==
    /\ pc[p] = "create_model_version"
    /\ \E resp \in CreateModelVersionAnswers(MODEL_NAME) :
        /\ calls' = [calls EXCEPT ![p] =
                        Append(@, Call("create_model_version",
                                       <<MODEL_NAME, "mlflow-artifacts:/" \o MODEL_NAME>>,
                                       resp))]
        /\ IF resp.kind = "return"
              THEN /\ store' = Append(store, resp.val[1])
                   /\ created' = [created EXCEPT ![p] = resp.val]
                   /\ out' = [out EXCEPT ![p] = Append(@, "Created version")]
                   /\ Continue(p)
              ELSE /\ UNCHANGED <<store, created, out>>
                   /\ Abort(p, resp.e)
    /\ UNCHANGED <<registered, faults, v, versions>>

(* line 42: the version identifier the direct get asks for *)
LookupVersionCreated(p) == created[p][1].version

LookupVersion(p) == "1"

(* lines 41-43 *)
GetModelVersion(p) ==
    /\ pc[p] = "get_model_version"
    /\ \E resp \in GetModelVersionAnswers(MODEL_NAME, LookupVersion(p)) :
        /\ calls' = [calls EXCEPT ![p] =
                        Append(@, Call("get_model_version",
                                       <<MODEL_NAME, LookupVersion(p)>>, resp))]
        /\ IF resp.kind = "return"
              THEN /\ v' = [v EXCEPT ![p] = resp.val]
                   /\ out' = [out EXCEPT ![p] =
                                Append(@, "Direct get works: v" \o resp.val[1].version)]
                   /\ Continue(p)
              ELSE /\ UNCHANGED <<v, out>>
                   /\ Abort(p, resp.e)
    /\ UNCHANGED <<registered, store, faults, created, versions>>

(* lines 45-48 *)
SearchModelVersions(p) ==
    /\ pc[p] = "search_model_versions"
    /\ \E resp \in SearchModelVersionsAnswers("name='" \o MODEL_NAME \o "'") :
        /\ calls' = [calls EXCEPT ![p] =
                        Append(@, Call("search_model_versions",
                                       <<"name='" \o MODEL_NAME \o "'">>, resp))]
        /\ IF resp.kind = "return"
              THEN /\ versions' = [versions EXCEPT ![p] = resp.val]
                   /\ out' = [out EXCEPT ![p] =
                                @ \o << "\nTrying search_model_versions...",
                                        "Search returned: " \o ToString(Len(resp.val))
                                            \o " versions (expected: >= 1)" >>]
                   /\ Continue(p)
              ELSE /\ UNCHANGED versions
                   /\ out' = [out EXCEPT ![p] =
                                Append(@, "\nTrying search_model_versions...")]
                   /\ Abort(p, resp.e)
    /\ UNCHANGED <<registered, store, faults, created, v>>

BugConfirmed == "\n*** BUG CONFIRMED: search_model_versions returns empty ***"

(* lines 50-52, and the end of the module body: exit status 0 *)
DiagnoseOffByOne(p) ==
    /\ pc[p] = "diagnose"
    /\ out' = [out EXCEPT ![p] =
                 IF Len(versions[p]) <= 1
                    THEN @ \o << BugConfirmed,
                                 "The endpoint returns {} regardless of filter." >>
                    ELSE @]
    /\ pc' = [pc EXCEPT ![p] = "done"]
    /\ status' = [status EXCEPT ![p] = <<0>>]
    /\ UNCHANGED <<registered, store, faults, calls, exc, created, v, versions>>

DiagnoseExitOne(p) ==
    /\ pc[p] = "diagnose"
    /\ out' = [out EXCEPT ![p] =
                 IF Len(versions[p]) = 0
                    THEN @ \o << BugConfirmed,
                                 "The endpoint returns {} regardless of filter." >>
                    ELSE @]
    /\ pc' = [pc EXCEPT ![p] = "done"]
    /\ status' = [status EXCEPT ![p] = IF Len(versions[p]) = 0 THEN <<1>> ELSE <<0>>]
    /\ UNCHANGED <<registered, store, faults, calls, exc, created, v, versions>>

Diagnose(p) ==
    /\ pc[p] = "diagnose"
    /\ out' = [out EXCEPT ![p] =
                 IF Len(versions[p]) = 0
                    THEN @ \o << BugConfirmed,
                                 "The endpoint returns {} regardless of filter." >>
                    ELSE @]
    /\ pc' = [pc EXCEPT ![p] = "done"]
    /\ status' = [status EXCEPT ![p] = <<0>>]
    /\ UNCHANGED <<registered, store, faults, calls, exc, created, v, versions>>

----------------------------------------------------------------------------
(* One run of the script, against a registry in any state an earlier use   *)
(* can have left, with or without injected errors.                          *)
Init ==
    /\ \E n \in 0..MaxPrior :
        /\ registered \in {<<OTHER_NAME>>, <<OTHER_NAME, MODEL_NAME>>}
        /\ (Len(registered) = 1 => n = 0)
        /\ store = <<VersionRecord(OTHER_NAME, "1")>>
                     \o [i \in 1..n |-> VersionRecord(MODEL_NAME, ToString(i))]
    /\ faults \in BOOLEAN
    /\ pc = [p \in Runs |-> IF p = 1 THEN "create_registered_model" ELSE "off"]
    /\ calls = [p \in Runs |-> <<>>]
    /\ out = [p \in Runs |-> <<>>]
    /\ exc = [p \in Runs |-> <<>>]
    /\ created = [p \in Runs |-> <<>>]
    /\ v = [p \in Runs |-> <<>>]
    /\ versions = [p \in Runs |-> <<>>]
    /\ status = [p \in Runs |-> <<>>]

(* Two runs of the script started against the same registry, which holds   *)
(* nothing under MODEL_NAME; no call fails for a reason of its own.         *)
InitTwo ==
    /\ registered = <<OTHER_NAME>>
    /\ store = <<VersionRecord(OTHER_NAME, "1")>>
    /\ faults = FALSE
    /\ pc = [p \in Runs |-> "create_registered_model"]
    /\ calls = [p \in Runs |-> <<>>]
    /\ out = [p \in Runs |-> <<>>]
    /\ exc = [p \in Runs |-> <<>>]
    /\ created = [p \in Runs |-> <<>>]
    /\ v = [p \in Runs |-> <<>>]
    /\ versions = [p \in Runs |-> <<>>]
    /\ status = [p \in Runs |-> <<>>]

Next ==
    \E p \in Runs :
        \/ CreateRegisteredModel(p)
        \/ CreateModelVersion(p)
        \/ GetModelVersion(p)
        \/ SearchModelVersions(p)
        \/ Diagnose(p)

Spec == Init /\ [][Next]_vars

SpecTwo == InitTwo /\ [][Next]_vars

----------------------------------------------------------------------------
(* Properties *)

Printed(p, line) == \E i \in 1..Len(out[p]) : out[p][i] = line

CountPrinted(p, line) == Cardinality({i \in 1..Len(out[p]) : out[p][i] = line})

Raised(c) == c.resp.kind = "raise"

Message(c) == c.resp.e.args[1]

(* The one failure the script absorbs: the first call, create_registered_model, *)
(* raising with ALREADY_EXISTS in its message.                                  *)
Absorbed(p, i) ==
    /\ i = 1
    /\ calls[p][i].op = "create_registered_model"
    /\ Raised(calls[p][i])
    /\ Contains(Message(calls[p][i]), "ALREADY_EXISTS")

Started == {p \in Runs : pc[p] # "off"}

(* C1: when create_registered_model raises an error whose message contains   *)
(* "ALREADY_EXISTS", the run prints "Model test-search-bug already exists"    *)
(* and not "Created model: ...", does not end with that error, and the next   *)
(* remote call it makes is create_model_version.                              *)
C1_AlreadyExistsRecovered ==
    \A p \in Started :
        (Len(calls[p]) >= 1 /\ Absorbed(p, 1)) =>
            /\ Len(out[p]) >= 1
            /\ out[p][1] = "Model test-search-bug already exists"
            /\ ~Printed(p, "Created model: test-search-bug")
            /\ exc[p] # <<calls[p][1].resp.e>> \/ Len(calls[p]) >= 2
            /\ Len(calls[p]) = 1 => pc[p] = "create_model_version"
            /\ Len(calls[p]) >= 2 => calls[p][2].op = "create_model_version"

C1_Witness ==
    \E p \in Started :
        /\ Len(calls[p]) >= 2
        /\ Absorbed(p, 1)
        /\ Message(calls[p][1]) = "ALREADY_EXISTS"
        /\ calls[p][2].op = "create_model_version"

(* C2: when create_registered_model raises an error whose message does not    *)
(* contain "ALREADY_EXISTS", the run ends with that very error: it makes no   *)
(* other remote call and prints nothing.                                      *)
C2_OtherErrorPropagates ==
    \A p \in Started :
        (/\ Len(calls[p]) >= 1
         /\ Raised(calls[p][1])
         /\ ~Contains(Message(calls[p][1]), "ALREADY_EXISTS")) =>
            /\ pc[p] = "aborted"
            /\ exc[p] = <<calls[p][1].resp.e>>
            /\ Len(calls[p]) = 1
            /\ out[p] = <<>>

C2_Witness ==
    \E p \in Started :
        /\ Len(calls[p]) = 1
        /\ Raised(calls[p][1])
        /\ Message(calls[p][1]) = "ALREADY_EXIST"
        /\ pc[p] = "aborted"

(* C3: strict sequential abort: a remote call that raises an error the run    *)
(* does not absorb is the last remote call of the run, and the run is in the  *)
(* aborted state from then on (it never gets to the diagnose step).           *)
C3_StrictSequentialAbort ==
    \A p \in Started :
        \A i \in 1..Len(calls[p]) :
            (Raised(calls[p][i]) /\ ~Absorbed(p, i)) =>
                /\ i = Len(calls[p])
                /\ pc[p] = "aborted"
                /\ ~Printed(p, "\n*** BUG CONFIRMED: search_model_versions returns empty ***")

C3_Witness ==
    \E p \in Started :
        /\ Len(calls[p]) = 3
        /\ calls[p][3].op = "get_model_version"
        /\ Raised(calls[p][3])
        /\ pc[p] = "aborted"

(* C4: the "BUG CONFIRMED" line is printed exactly in the runs whose search   *)
(* returned an empty sequence, right after the count line "Search returned:   *)
(* 0 versions ..."; the count printed is always the number of records the     *)
(* search returned.                                                           *)
SearchReturned(p) ==
    /\ Len(calls[p]) = 4
    /\ calls[p][4].op = "search_model_versions"
    /\ ~Raised(calls[p][4])

CountLine(k) == "Search returned: " \o ToString(k) \o " versions (expected: >= 1)"

C4_BugConfirmedIffEmpty ==
    \A p \in Started :
        /\ pc[p] # "done" =>
              ~Printed(p, "\n*** BUG CONFIRMED: search_model_versions returns empty ***")
        /\ pc[p] = "done" =>
              /\ SearchReturned(p)
              /\ Printed(p, "\n*** BUG CONFIRMED: search_model_versions returns empty ***")
                    <=> Len(calls[p][4].resp.val) = 0
              /\ Len(calls[p][4].resp.val) = 0 =>
                    /\ out[p][Len(out[p]) - 2]
                          = "Search returned: 0 versions (expected: >= 1)"
                    /\ out[p][Len(out[p]) - 1]
                          = "\n*** BUG CONFIRMED: search_model_versions returns empty ***"
        /\ \A k \in 0..Len(store) :
              Printed(p, CountLine(k)) <=>
                  (SearchReturned(p) /\ Len(calls[p][4].resp.val) = k)

C4_Witness ==
    \E p \in Started :
        /\ pc[p] = "done"
        /\ Len(calls[p][4].resp.val) = 2
        /\ Printed(p, "Search returned: 2 versions (expected: >= 1)")
        /\ ~Printed(p, "\n*** BUG CONFIRMED: search_model_versions returns empty ***")

(* C5: every get_model_version call is made with the name "test-search-bug"   *)
(* and the version identifier "1", whatever the registry held before and      *)
(* whatever version create_model_version produced; a run that got past the    *)
(* direct lookup has made that call.                                          *)
C5_LookupLiteralOne ==
    \A p \in Started :
        /\ \A i \in 1..Len(calls[p]) :
              calls[p][i].op = "get_model_version" =>
                  calls[p][i].args = <<"test-search-bug", "1">>
        /\ pc[p] \in {"search_model_versions", "diagnose", "done"} =>
              /\ Len(calls[p]) >= 3
              /\ calls[p][3].op = "get_model_version"

C5_Witness ==
    \E p \in Started :
        /\ Len(calls[p]) >= 3
        /\ Absorbed(p, 1)
        /\ calls[p][3].op = "get_model_version"
        /\ created[p] # <<>>
        /\ created[p][1].version = "3"

(* C6: the exit status is 0 in every run that got through the diagnose step,  *)
(* "BUG CONFIRMED" printed or not, and it is nonzero exactly in the runs in   *)
(* which a remote call raised an error the run did not absorb.                *)
C6_ExitStatus ==
    \A p \in Started :
        /\ pc[p] = "done" => status[p] = <<0>>
        /\ status[p] \in {<<>>, <<0>>, <<1>>}
        /\ status[p] # <<>> <=> pc[p] \in {"done", "aborted"}
        /\ status[p] = <<1>> <=>
              \E i \in 1..Len(calls[p]) : Raised(calls[p][i]) /\ ~Absorbed(p, i)

C6_Witness ==
    \E p \in Started :
        /\ pc[p] = "done"
        /\ Printed(p, "\n*** BUG CONFIRMED: search_model_versions returns empty ***")
        /\ status[p] = <<0>>

(* C7: the remote calls of a run are an initial part of create_registered_-   *)
(* model, create_model_version, get_model_version, search_model_versions, in  *)
(* that order and each at most once; a run that ends normally made all four.  *)
CallOrder ==
    << "create_registered_model", "create_model_version",
       "get_model_version", "search_model_versions" >>

C7_FixedOrderOnce ==
    \A p \in Started :
        /\ Len(calls[p]) <= 4
        /\ \A i \in 1..Len(calls[p]) : calls[p][i].op = CallOrder[i]
        /\ pc[p] \in {"done", "diagnose"} => Len(calls[p]) = 4
        /\ pc[p] \in {"create_registered_model", "create_model_version",
                      "get_model_version", "search_model_versions"} =>
              /\ Len(calls[p]) < 4
              /\ pc[p] = CallOrder[Len(calls[p]) + 1]

C7_Witness ==
    \E p \in Started :
        /\ pc[p] = "done"
        /\ Len(calls[p]) = 4
        /\ ~Raised(calls[p][1])

C9_OnlyCreateEntityRecovered ==
    \A p \in Started :
        /\ \A i \in 1..Len(calls[p]) :
              (Raised(calls[p][i]) /\ calls[p][i].op # "create_registered_model") =>
                  /\ i = Len(calls[p])
                  /\ pc[p] = "aborted"
                  /\ exc[p] = <<calls[p][i].resp.e>>
        /\ Printed(p, "Model test-search-bug already exists") =>
              /\ Absorbed(p, 1)
              /\ CountPrinted(p, "Model test-search-bug already exists") = 1

C9_Witness ==
    \E p \in Started :
        /\ Len(calls[p]) = 2
        /\ calls[p][2].op = "create_model_version"
        /\ Raised(calls[p][2])
        /\ Contains(Message(calls[p][2]), "ALREADY_EXISTS")
        /\ pc[p] = "aborted"

(* C10: two runs against a registry that holds nothing under the name, every  *)
(* call atomic and none failing for a reason of its own: no run aborts; once  *)
(* both are past create_registered_model exactly one has printed "Created     *)
(* model: test-search-bug" and the other "Model test-search-bug already       *)
(* exists"; when both have ended the registry holds one model of that name    *)
(* and two versions under it.                                                 *)
Entities(name) == {i \in 1..Len(registered) : registered[i] = name}

C10_TwoRuns ==
    /\ \A p \in Runs : pc[p] # "aborted" /\ exc[p] = <<>>
    /\ (\A p \in Runs : Len(calls[p]) >= 1) =>
          \E p \in Runs :
              \E q \in Runs \ {p} :
                  /\ Printed(p, "Created model: test-search-bug")
                  /\ ~Printed(p, "Model test-search-bug already exists")
                  /\ Printed(q, "Model test-search-bug already exists")
                  /\ ~Printed(q, "Created model: test-search-bug")
    /\ (\A p \in Runs : pc[p] = "done") =>
          /\ Cardinality(Entities("test-search-bug")) = 1
          /\ Len(VersionsOf("test-search-bug")) = 2
          /\ \A p \in Runs : v[p] # <<>> /\ v[p][1].version = "1"

C10_Witness ==
    /\ \A p \in Runs : pc[p] = "done"
    /\ \E p \in Runs : created[p][1].version = "2"

====
